---- MODULE Spec2Model ----
(***************************************************************************)
(* Model of app/websocket_manager.py (class WebSocketManager) and of the   *)
(* model classes of app/models.py it reads and writes.                     *)
(*                                                                         *)
(* Every socket.io event handler is one action and runs to completion      *)
(* before the next one starts.  A handler is written as an operator from a *)
(* "world" record (the manager's dictionaries, the transport's room        *)
(* subscriptions, the UserRoom and ChatMessage tables and the events       *)
(* emitted so far by the running handler) to the world it leaves behind.   *)
(*                                                                         *)
(* The clock datetime.utcnow() is the variable now, in seconds; it advances *)
(* in steps of TickSeconds.                                                *)
(***************************************************************************)
EXTENDS Integers, Sequences, FiniteSets, TLC

\* ------------------------------------------------------------------ bounds
MaxTicks == 1
TickSeconds == 172800
MaxMessages == 1
MaxDays == 2
MaxSends == 2

\* ------------------------------------------------------- program constants
TTL == 86400

\* ----------------------------------------------------------- value domains
Sessions == {"s1", "s2"}
Users == {"u1", "u2", "u3"}
Rooms == {"general", "staff", "archive"}
NoneId == "None"
RoomIds == Rooms \cup {"nosuch"}
Null == -1

\* The tokens a client can present; NoneId stands for a missing token.
Tokens == {"tok_u1", "tok_u2", "tok_u3", "tok_revoked", "tok_expired", "tok_orphan",
           "tok_unknown", NoneId}

\* The tokens the client behind each transport session holds: the first
\* client is a device of u1, the second one a device of u1 or of u2.
TokensOf(s) ==
  IF s = "s1" THEN Tokens \ {"tok_u2"} ELSE Tokens

\* The room_id a request carries (NoneId: none) and the user_id of a
\* notification, chosen to reach every branch of the handler.
JoinInputs == {"general", "staff", "archive", "nosuch", NoneId}
LeaveInputs == {"general", "staff", "nosuch", NoneId}
SendInputs == {"general", "staff", NoneId}
NotifyInputs == {"u1", "u2"}
SystemInputs == {"general", "staff"}
TypingInputs == {"general", "staff", NoneId}
DeactivateInputs == {"general", "staff"}

\* The requests whose handlers are followed step by step: joins of the public
\* and of the private room, messages to them, one content.
RaceJoinInputs == {"general", "staff"}
RaceSendInputs == {"general", "staff"}
RaceContent == <<"h", "i">>

\* Message contents as sequences of characters.
Contents == {<<" ">>, <<" ", "h", "i", " ">>}

\* The execution context of a call is the set of sids of the request being
\* handled: {request.sid} inside a socket.io handler, {} in the background
\* task, which runs outside any request or application context.
NoRequest == {}

\* ------------------------------------------------------------ store tables
UserStatusOf(u) ==
  IF u = "u3" THEN "SUSPENDED" ELSE "ACTIVE"

is_active_user_not_inactive(u) ==
  UserStatusOf(u) # "INACTIVE"

is_active_user(u) ==
  UserStatusOf(u) = "ACTIVE"

\* User.query.get(user_id): the set holding the user, {} for None.
UserQuery(user_id) ==
  IF user_id \in Users THEN {user_id} ELSE {}

\* The user_sessions table: tok_orphan belongs to a user whose row is gone.
UserSessionRows ==
  [t \in {"tok_u1", "tok_u2", "tok_u3", "tok_revoked", "tok_expired", "tok_orphan"} |->
     CASE t = "tok_u1" -> [user_id |-> "u1", is_active |-> TRUE, expires_at |-> (MaxTicks + 1) * TickSeconds]
       [] t = "tok_u2" -> [user_id |-> "u2", is_active |-> TRUE, expires_at |-> (MaxTicks + 1) * TickSeconds]
       [] t = "tok_u3" -> [user_id |-> "u3", is_active |-> TRUE, expires_at |-> (MaxTicks + 1) * TickSeconds]
       [] t = "tok_revoked" -> [user_id |-> "u1", is_active |-> FALSE, expires_at |-> (MaxTicks + 1) * TickSeconds]
       [] t = "tok_expired" -> [user_id |-> "u2", is_active |-> TRUE, expires_at |-> 0]
       [] t = "tok_orphan" -> [user_id |-> "ghost", is_active |-> TRUE, expires_at |-> (MaxTicks + 1) * TickSeconds]]

is_expired(row, t) ==
  t > row.expires_at

ChatRoomRows ==
  [r \in Rooms |->
     CASE r = "general" -> [is_public |-> TRUE, is_active |-> TRUE]
       [] r = "staff" -> [is_public |-> FALSE, is_active |-> TRUE]
       [] r = "archive" -> [is_public |-> TRUE, is_active |-> FALSE]]

NoRow == [exists |-> FALSE, is_active |-> FALSE, left_at |-> Null, can_send_messages |-> TRUE]

NewUserRoom(canSend) ==
  [exists |-> TRUE, is_active |-> TRUE, left_at |-> Null, can_send_messages |-> canSend]

\* ------------------------------------------------------------------- state
VARIABLES
  active_connections,  \* session_id -> [user_id, rooms, connected_at]
  conn_order,          \* the insertion order of active_connections
  room_users,          \* room_id -> set of user_ids
  user_rooms,          \* user_id -> set of room_ids
  sio_rooms,           \* the transport's room subscriptions: room_id -> set of sids
  transport,           \* per sid: "new", "open" or "closed"
  UserRoom,            \* the user_rooms table: <<user_id, room_id>> -> row
  ChatRoom,            \* the chat_rooms table: room_id -> row
  UserSession,         \* the user_sessions table: session_token -> row
  ChatMessage,         \* the chat_messages table, in insertion order
  now,                 \* datetime.utcnow()
  inflight,            \* per sid: the request whose handler is suspended, and where
  delivered,           \* the new_message broadcasts, in the order they were emitted
  UserRoomDuplicates,  \* <<user_id, room_id>> -> number of rows beyond the first one
  last                 \* what the last handler was called with and what it emitted

vars == <<active_connections, conn_order, room_users, user_rooms, sio_rooms,
          transport, UserRoom, ChatRoom, UserSession, ChatMessage, now, inflight,
          delivered, UserRoomDuplicates, last>>

\* --------------------------------------------------------- generic helpers
Put(f, k, v) ==
  [x \in DOMAIN f \cup {k} |-> IF x = k THEN v ELSE f[x]]

Del(f, k) ==
  [x \in DOMAIN f \ {k} |-> f[x]]

Get(f, k, default) ==
  IF k \in DOMAIN f THEN f[k] ELSE default

RECURSIVE Without(_, _)
Without(seq, x) ==
  IF seq = <<>> THEN <<>>
  ELSE IF Head(seq) = x THEN Without(Tail(seq), x)
  ELSE <<Head(seq)>> \o Without(Tail(seq), x)

RECURSIVE lstrip(_)
lstrip(s) ==
  IF s # <<>> /\ Head(s) = " " THEN lstrip(Tail(s)) ELSE s

RECURSIVE rstrip(_)
rstrip(s) ==
  IF s # <<>> /\ s[Len(s)] = " " THEN rstrip(SubSeq(s, 1, Len(s) - 1)) ELSE s

strip_nothing(s) ==
  s

strip(s) ==
  rstrip(lstrip(s))

\* -------------------------------------------------------------- the world
World ==
  [ac |-> active_connections, order |-> conn_order, ru |-> room_users,
   ur |-> user_rooms, sio |-> sio_rooms, rows |-> UserRoom,
   msgs |-> ChatMessage, ev |-> <<>>, leaves |-> [r \in RoomIds |-> 0]]

\* An emitted event: its name, the sids it is delivered to and its payload
\* (message: the text of an error; content: the text of a chat message;
\* user_count: the count of room_joined; typing: the flag of user_typing;
\* users: the list of room_users).
Event(name, to, room_id, user_id) ==
  [event |-> name, to |-> to, room_id |-> room_id, user_id |-> user_id,
   message |-> "", content |-> <<>>, user_count |-> 0, typing |-> FALSE,
   users |-> {}]

\* self.socketio.emit(name, ..., room=room_id): to every sid subscribed to the room.
EmitRoom(w, name, room_id, user_id) ==
  [w EXCEPT !.ev = Append(@, Event(name, w.sio[room_id], room_id, user_id))]

\* emit(name, ...) inside a handler, and self.socketio.emit(name, ..., room=sid).
EmitSid(w, name, sid, room_id, user_id) ==
  [w EXCEPT !.ev = Append(@, Event(name, {sid}, room_id, user_id))]

EmitErrorToAll(w, sid, message) ==
  [w EXCEPT !.ev = Append(@, [Event("error", DOMAIN w.ac \cup {sid}, NoneId, NoneId)
                                EXCEPT !.message = message])]

\* emit('error', {'message': message}) inside the handler of sid.
EmitError(w, sid, message) ==
  [w EXCEPT !.ev = Append(@, [Event("error", {sid}, NoneId, NoneId) EXCEPT !.message = message])]

\* ------------------------------------------------------- _verify_session_token
\* UserSession.query.filter_by(session_token=token, is_active=True).first()
UserSessionQueryAnyRow(token) ==
  IF token \in DOMAIN UserSession THEN {UserSession[token]} ELSE {}

UserSessionQuery(token) ==
  IF token \in DOMAIN UserSession /\ UserSession[token].is_active
  THEN {UserSession[token]} ELSE {}

\* The set holding the user the token resolves to; {} stands for None.
verify_session_token(token, t) ==
  LET found == UserSessionQuery(token) IN
    IF found = {} THEN {}
    ELSE LET user_session == CHOOSE x \in found : TRUE IN
           IF is_expired(user_session, t) THEN {}
           ELSE IF UserQuery(user_session.user_id) = {} THEN {}
           ELSE IF ~is_active_user(user_session.user_id) THEN {}
           ELSE {user_session.user_id}

\* The user_sessions table after _verify_session_token(token): the method
\* assigns to no attribute of the row it read and commits nothing.
UserSessionAfterVerify(rows, token, t) ==
  rows

\* ------------------------------------------------------- per-session replies
\* "Find user's session": the first entry of active_connections, in the
\* dictionary's order, that belongs to the user.
RECURSIVE FirstSessionOf(_, _, _)
FirstSessionOf(ac, order, user_id) ==
  IF order = <<>> THEN {}
  ELSE IF ac[Head(order)].user_id = user_id THEN {Head(order)}
  ELSE FirstSessionOf(ac, Tail(order), user_id)

send_available_rooms(w, user_id) ==
  LET user_session == FirstSessionOf(w.ac, w.order, user_id) IN
    IF user_session = {} THEN w
    ELSE EmitSid(w, "available_rooms", CHOOSE x \in user_session : TRUE, NoneId, user_id)

send_recent_messages(w, room_id, user_id) ==
  LET user_session == FirstSessionOf(w.ac, w.order, user_id) IN
    IF user_session = {} THEN w
    ELSE EmitSid(w, "recent_messages", CHOOSE x \in user_session : TRUE, room_id, user_id)

\* ------------------------------------------------------------ handle_connect
\* The world after the handler, given the session id, the auth token and the
\* time; ConnectAccepted tells what the handler returns.
ConnectAccepted(token, t) ==
  token # NoneId /\ verify_session_token(token, t) # {}

handle_connect_keyed_by_address(w, sid, token, t) ==
  IF ~ConnectAccepted(token, t) THEN w
  ELSE
    LET user_id == CHOOSE u \in verify_session_token(token, t) : TRUE
        w1 == [w EXCEPT !.ac = Put(@, "addr", [user_id |-> user_id, rooms |-> {}, connected_at |-> t]),
                        !.order = IF "addr" \in DOMAIN w.ac THEN @ ELSE Append(@, "addr")]
        w2 == [w1 EXCEPT !.ur = IF user_id \in DOMAIN @ THEN @ ELSE Put(@, user_id, {})]
        w3 == EmitSid(w2, "connected", sid, NoneId, user_id)
    IN send_available_rooms(w3, user_id)

handle_connect(w, sid, token, t) ==
  IF ~ConnectAccepted(token, t) THEN w
  ELSE
    LET user_id == CHOOSE u \in verify_session_token(token, t) : TRUE
        w1 == [w EXCEPT !.ac = Put(@, sid, [user_id |-> user_id, rooms |-> {}, connected_at |-> t]),
                        !.order = IF sid \in DOMAIN w.ac THEN @ ELSE Append(@, sid)]
        w2 == [w1 EXCEPT !.ur = IF user_id \in DOMAIN @ THEN @ ELSE Put(@, user_id, {})]
        w3 == EmitSid(w2, "connected", sid, NoneId, user_id)
    IN send_available_rooms(w3, user_id)

\* ------------------------------------------------------ _leave_room_internal
\* "Leave the room" and "Update tracking": the session leaves the transport
\* room and the room leaves its 'rooms'; the user leaves room_users[room_id]
\* and the room leaves user_rooms[user_id].
LeaveRegistryAndIndexKeepsUser(w, req, session_id, room_id) ==
  LET user_id == w.ac[session_id].user_id
      w1 == [w EXCEPT !.sio[room_id] = @ \ req,
                      !.ac[session_id].rooms = @ \ {room_id}]
  IN [w1 EXCEPT !.ur = IF user_id \in DOMAIN @
                       THEN [@ EXCEPT ![user_id] = @ \ {room_id}] ELSE @]

LeaveRegistryAndIndex(w, req, session_id, room_id) ==
  LET user_id == w.ac[session_id].user_id
      w1 == [w EXCEPT !.sio[room_id] = @ \ req,
                      !.ac[session_id].rooms = @ \ {room_id}]
  IN [w1 EXCEPT !.ru = IF room_id \in DOMAIN @
                       THEN [@ EXCEPT ![room_id] = @ \ {user_id}] ELSE @,
                !.ur = IF user_id \in DOMAIN @
                       THEN [@ EXCEPT ![user_id] = @ \ {room_id}] ELSE @]

\* "Update database": the persisted leave.
PersistLeave(w, user_id, room_id) ==
  LET user_room == w.rows[<<user_id, room_id>>] IN
    IF user_room.exists
    THEN [w EXCEPT !.rows[<<user_id, room_id>>] =
                      [@ EXCEPT !.is_active = FALSE, !.left_at = now],
                   !.leaves[room_id] = @ + 1]
    ELSE w

\* flask_socketio.leave_room(room_id) takes the session from the request
\* being handled; called without one (req = NoRequest) it raises, and the
\* except clause of _leave_room_internal logs the error and returns.
leave_room_internal(w, session_id, room_id, req) ==
  IF session_id \notin DOMAIN w.ac THEN w
  ELSE IF req = NoRequest THEN w
  ELSE
    LET user_id == w.ac[session_id].user_id
        w2 == LeaveRegistryAndIndex(w, req, session_id, room_id)
        w3 == PersistLeave(w2, user_id, room_id)
        w4 == EmitRoom(w3, "user_left", room_id, user_id)
    IN EmitSid(w4, "room_left", session_id, room_id, user_id)

\* for room_id in conn_info['rooms'].copy(): self._leave_room_internal(...)
RECURSIVE LeaveAllRooms(_, _, _, _)
LeaveAllRooms(w, session_id, rooms, req) ==
  IF rooms = {} THEN w
  ELSE LET room_id == CHOOSE r \in rooms : TRUE IN
         LeaveAllRooms(leave_room_internal(w, session_id, room_id, req),
                       session_id, rooms \ {room_id}, req)

\* --------------------------------------------------------- handle_disconnect
handle_disconnect(w, session_id) ==
  IF session_id \notin DOMAIN w.ac THEN w
  ELSE
    LET w1 == LeaveAllRooms(w, session_id, w.ac[session_id].rooms, {session_id})
    IN [w1 EXCEPT !.ac = Del(@, session_id), !.order = Without(@, session_id)]

\* ------------------------------------------- handle_connect, except clause
\* handle_connect when a statement after "Store connection info" raises (the
\* reload of the user row for the 'connected' payload, or the emit): the
\* except clause calls disconnect() and returns False.  disconnect() of the
\* session being connected makes the server run the 'disconnect' handler
\* for it before it drops the session.
handle_connect_raises_keeps_entry(w, sid, token, t) ==
  IF ~ConnectAccepted(token, t) THEN w
  ELSE
    LET user_id == CHOOSE u \in verify_session_token(token, t) : TRUE
        w1 == [w EXCEPT !.ac = Put(@, sid, [user_id |-> user_id, rooms |-> {}, connected_at |-> t]),
                        !.order = IF sid \in DOMAIN w.ac THEN @ ELSE Append(@, sid)]
    IN [w1 EXCEPT !.ur = IF user_id \in DOMAIN @ THEN @ ELSE Put(@, user_id, {})]

handle_connect_raises(w, sid, token, t) ==
  IF ~ConnectAccepted(token, t) THEN w
  ELSE
    LET user_id == CHOOSE u \in verify_session_token(token, t) : TRUE
        w1 == [w EXCEPT !.ac = Put(@, sid, [user_id |-> user_id, rooms |-> {}, connected_at |-> t]),
                        !.order = IF sid \in DOMAIN w.ac THEN @ ELSE Append(@, sid)]
        w2 == [w1 EXCEPT !.ur = IF user_id \in DOMAIN @ THEN @ ELSE Put(@, user_id, {})]
    IN handle_disconnect(w2, sid)

\* ---------------------------------------------------------- handle_join_room
RoomOkExistsOnly(room_id) ==
  room_id \in DOMAIN ChatRoom

RoomOk(room_id) ==
  room_id \in DOMAIN ChatRoom /\ ChatRoom[room_id].is_active

\* "Join the room" and "Update room users tracking".
JoinRegistryAndIndexFromSnapshot(w, session_id, room_id) ==
  LET user_id == w.ac[session_id].user_id
      w1 == [w EXCEPT !.sio[room_id] = @ \cup {session_id},
                      !.ac[session_id].rooms = @ \cup {room_id}]
  IN [w1 EXCEPT !.ru = Put(@, room_id, Get(@, room_id, {}) \cup {user_id}),
                !.ur[user_id] = w.ac[session_id].rooms]

JoinRegistryAndIndex(w, session_id, room_id) ==
  LET user_id == w.ac[session_id].user_id
      w1 == [w EXCEPT !.sio[room_id] = @ \cup {session_id},
                      !.ac[session_id].rooms = @ \cup {room_id}]
  IN [w1 EXCEPT !.ru = Put(@, room_id, Get(@, room_id, {}) \cup {user_id}),
                !.ur[user_id] = @ \cup {room_id}]

\* "Update user room record": the persisted join.
PersistJoin(w, user_id, room_id) ==
  LET user_room == w.rows[<<user_id, room_id>>] IN
    [w EXCEPT !.rows[<<user_id, room_id>>] =
                 IF ~user_room.exists THEN NewUserRoom(TRUE)
                 ELSE [user_room EXCEPT !.is_active = TRUE, !.left_at = Null]]

handle_join_room_any_row(w, session_id, room_id) ==
  IF session_id \notin DOMAIN w.ac
  THEN EmitError(w, session_id, "Not authenticated")
  ELSE IF room_id = NoneId
  THEN EmitError(w, session_id, "Room ID required")
  ELSE
    LET user_id == w.ac[session_id].user_id IN
    IF ~RoomOk(room_id)
    THEN EmitError(w, session_id, "Room not found or inactive")
    ELSE IF ~ChatRoom[room_id].is_public /\ ~w.rows[<<user_id, room_id>>].exists
    THEN EmitError(w, session_id, "Access denied to private room")
    ELSE
      LET w2 == JoinRegistryAndIndex(w, session_id, room_id)
          w3 == PersistJoin(w2, user_id, room_id)
          w4 == EmitRoom(w3, "user_joined", room_id, user_id)
          w5 == [w4 EXCEPT !.ev = Append(@, [Event("room_joined", {session_id}, room_id, user_id)
                                              EXCEPT !.user_count = Cardinality(Get(w4.ru, room_id, {}))])]
      IN send_recent_messages(w5, room_id, user_id)

handle_join_room(w, session_id, room_id) ==
  IF session_id \notin DOMAIN w.ac
  THEN EmitError(w, session_id, "Not authenticated")
  ELSE IF room_id = NoneId
  THEN EmitError(w, session_id, "Room ID required")
  ELSE
    LET user_id == w.ac[session_id].user_id IN
    IF ~RoomOk(room_id)
    THEN EmitError(w, session_id, "Room not found or inactive")
    ELSE IF ~ChatRoom[room_id].is_public
            /\ ~(w.rows[<<user_id, room_id>>].exists /\ w.rows[<<user_id, room_id>>].is_active)
    THEN EmitError(w, session_id, "Access denied to private room")
    ELSE
      LET w2 == JoinRegistryAndIndex(w, session_id, room_id)
          w3 == PersistJoin(w2, user_id, room_id)
          w4 == EmitRoom(w3, "user_joined", room_id, user_id)
          w5 == [w4 EXCEPT !.ev = Append(@, [Event("room_joined", {session_id}, room_id, user_id)
                                              EXCEPT !.user_count = Cardinality(Get(w4.ru, room_id, {}))])]
      IN send_recent_messages(w5, room_id, user_id)

\* The handler when db.session.commit() raises: the except clause logs the
\* error and answers 'Failed to join room'; what was assigned before the
\* commit stays, the rows of the store are as before.
handle_join_room_commit_fails(w, session_id, room_id) ==
  IF session_id \notin DOMAIN w.ac
  THEN EmitError(w, session_id, "Not authenticated")
  ELSE IF room_id = NoneId
  THEN EmitError(w, session_id, "Room ID required")
  ELSE
    LET user_id == w.ac[session_id].user_id IN
    IF ~RoomOk(room_id)
    THEN EmitError(w, session_id, "Room not found or inactive")
    ELSE IF ~ChatRoom[room_id].is_public
            /\ ~(w.rows[<<user_id, room_id>>].exists /\ w.rows[<<user_id, room_id>>].is_active)
    THEN EmitError(w, session_id, "Access denied to private room")
    ELSE EmitError(JoinRegistryAndIndex(w, session_id, room_id), session_id,
                   "Failed to join room")

\* --------------------------------------------------------- handle_leave_room
handle_leave_room(w, session_id, room_id) ==
  IF session_id \in DOMAIN w.ac /\ room_id # NoneId
  THEN leave_room_internal(w, session_id, room_id, {session_id})
  ELSE w

\* ------------------------------------------------------- handle_send_message
handle_send_message_skip_sender(w, session_id, room_id, raw) ==
  IF session_id \notin DOMAIN w.ac
  THEN EmitError(w, session_id, "Not authenticated")
  ELSE
    LET content == strip(raw)
        user_id == w.ac[session_id].user_id
    IN
    IF room_id = NoneId \/ content = <<>>
    THEN EmitError(w, session_id, "Room ID and content required")
    ELSE IF room_id \notin w.ac[session_id].rooms
    THEN EmitError(w, session_id, "You are not in this room")
    ELSE
      LET row == w.rows[<<user_id, room_id>>]
          user_room == IF row.exists /\ row.is_active THEN {row} ELSE {} IN
      IF user_room # {} /\ ~row.can_send_messages
      THEN EmitError(w, session_id, "You do not have permission to send messages")
      ELSE
        LET w1 == [w EXCEPT !.msgs = Append(@, [user_id |-> user_id, room_id |-> room_id,
                                                 content |-> content])]
        IN [w1 EXCEPT !.ev = Append(@, [Event("new_message", w1.sio[room_id] \ {session_id},
                                              room_id, user_id)
                                          EXCEPT !.content = content])]

handle_send_message_any_room(w, session_id, room_id, raw) ==
  IF session_id \notin DOMAIN w.ac
  THEN EmitError(w, session_id, "Not authenticated")
  ELSE
    LET content == strip(raw)
        user_id == w.ac[session_id].user_id
    IN
    IF room_id = NoneId \/ content = <<>>
    THEN EmitError(w, session_id, "Room ID and content required")
    ELSE
      LET row == w.rows[<<user_id, room_id>>]
          user_room == IF row.exists /\ row.is_active THEN {row} ELSE {} IN
      IF user_room # {} /\ ~row.can_send_messages
      THEN EmitError(w, session_id, "You do not have permission to send messages")
      ELSE
        LET w1 == [w EXCEPT !.msgs = Append(@, [user_id |-> user_id, room_id |-> room_id,
                                                 content |-> content])]
        IN [w1 EXCEPT !.ev = Append(@, [Event("new_message", w1.sio[room_id], room_id, user_id)
                                          EXCEPT !.content = content])]

handle_send_message(w, session_id, room_id, raw) ==
  IF session_id \notin DOMAIN w.ac
  THEN EmitError(w, session_id, "Not authenticated")
  ELSE
    LET content == strip(raw)
        user_id == w.ac[session_id].user_id
    IN
    IF room_id = NoneId \/ content = <<>>
    THEN EmitError(w, session_id, "Room ID and content required")
    ELSE IF room_id \notin w.ac[session_id].rooms
    THEN EmitError(w, session_id, "You are not in this room")
    ELSE
      LET row == w.rows[<<user_id, room_id>>]
          user_room == IF row.exists /\ row.is_active THEN {row} ELSE {} IN
      IF user_room # {} /\ ~row.can_send_messages
      THEN EmitError(w, session_id, "You do not have permission to send messages")
      ELSE
        LET w1 == [w EXCEPT !.msgs = Append(@, [user_id |-> user_id, room_id |-> room_id,
                                                 content |-> content])]
        IN [w1 EXCEPT !.ev = Append(@, [Event("new_message", w1.sio[room_id], room_id, user_id)
                                          EXCEPT !.content = content])]

\* ------------------------------------- handle_typing_start, handle_typing_stop
\* self.socketio.emit(..., room=room_id, include_self=False) inside the
\* handler of session_id: to the sids subscribed to the room but request.sid.
handle_typing_start_include_self(w, session_id, room_id) ==
  IF session_id \in DOMAIN w.ac /\ room_id # NoneId
  THEN IF room_id \in w.ac[session_id].rooms
       THEN [w EXCEPT !.ev = Append(@, [Event("user_typing", w.sio[room_id],
                                              room_id, w.ac[session_id].user_id)
                                          EXCEPT !.typing = TRUE])]
       ELSE w
  ELSE w

handle_typing_start(w, session_id, room_id) ==
  IF session_id \in DOMAIN w.ac /\ room_id # NoneId
  THEN IF room_id \in w.ac[session_id].rooms
       THEN [w EXCEPT !.ev = Append(@, [Event("user_typing", w.sio[room_id] \ {session_id},
                                              room_id, w.ac[session_id].user_id)
                                          EXCEPT !.typing = TRUE])]
       ELSE w
  ELSE w

handle_typing_stop(w, session_id, room_id) ==
  IF session_id \in DOMAIN w.ac /\ room_id # NoneId
  THEN IF room_id \in w.ac[session_id].rooms
       THEN [w EXCEPT !.ev = Append(@, [Event("user_typing", w.sio[room_id] \ {session_id},
                                              room_id, w.ac[session_id].user_id)
                                          EXCEPT !.typing = FALSE])]
       ELSE w
  ELSE w

\* ----------------------------------------------------- handle_get_room_users
handle_get_room_users(w, session_id, room_id) ==
  IF session_id \notin DOMAIN w.ac
  THEN EmitError(w, session_id, "Not authenticated")
  ELSE IF room_id \notin w.ac[session_id].rooms
  THEN EmitError(w, session_id, "You are not in this room")
  ELSE
    LET room_user_ids == Get(w.ru, room_id, {})
        users_data == {[id |-> user_id,
                        online |-> \E sid \in DOMAIN w.ac : w.ac[sid].user_id = user_id] :
                         user_id \in {u \in room_user_ids : UserQuery(u) # {}}}
    IN [w EXCEPT !.ev = Append(@, [Event("room_users", {session_id}, room_id, NoneId)
                                     EXCEPT !.users = users_data])]

\* --------------------------------------------------------- send_notification
RECURSIVE NotifyEach(_, _, _)
NotifyEach(w, order, user_id) ==
  IF order = <<>> THEN w
  ELSE LET session_id == Head(order)
           w1 == IF w.ac[session_id].user_id = user_id
                 THEN EmitSid(w, "notification", session_id, NoneId, user_id)
                 ELSE w
       IN NotifyEach(w1, Tail(order), user_id)

send_notification_first(w, user_id) ==
  LET user_session == FirstSessionOf(w.ac, w.order, user_id) IN
    IF user_session = {} THEN w
    ELSE EmitSid(w, "notification", CHOOSE x \in user_session : TRUE, NoneId, user_id)

send_notification(w, user_id) ==
  NotifyEach(w, w.order, user_id)

\* ------------------------------------------------- broadcast_system_message
broadcast_system_message(w, room_id) ==
  IF room_id \in DOMAIN w.ru
  THEN EmitRoom(w, "system_message", room_id, NoneId)
  ELSE w

\* ---------------------------------------------- _cleanup_inactive_connections
\* The sessions older than 24 hours, in the dictionary's order.
RECURSIVE InactiveSessionsAtTTL(_, _, _)
InactiveSessionsAtTTL(ac, order, t) ==
  IF order = <<>> THEN <<>>
  ELSE (IF t - ac[Head(order)].connected_at >= TTL THEN <<Head(order)>> ELSE <<>>)
       \o InactiveSessionsAtTTL(ac, Tail(order), t)

RECURSIVE InactiveSessions(_, _, _)
InactiveSessions(ac, order, t) ==
  IF order = <<>> THEN <<>>
  ELSE (IF t - ac[Head(order)].connected_at > TTL THEN <<Head(order)>> ELSE <<>>)
       \o InactiveSessions(ac, Tail(order), t)

\* The sweep when an error raised while a session leaves a room is not
\* caught before it reaches the loop.
RECURSIVE CleanUpStopsAtFailure(_, _)
CleanUpStopsAtFailure(w, inactive_sessions) ==
  IF inactive_sessions = <<>> THEN w
  ELSE
    LET session_id == Head(inactive_sessions) IN
    IF session_id \in DOMAIN w.ac
    THEN IF w.ac[session_id].rooms # {} THEN w
         ELSE CleanUpStopsAtFailure([w EXCEPT !.ac = Del(@, session_id),
                                              !.order = Without(@, session_id)],
                                    Tail(inactive_sessions))
    ELSE CleanUpStopsAtFailure(w, Tail(inactive_sessions))

RECURSIVE CleanUp(_, _)
CleanUp(w, inactive_sessions) ==
  IF inactive_sessions = <<>> THEN w
  ELSE
    LET session_id == Head(inactive_sessions) IN
    IF session_id \in DOMAIN w.ac
    THEN LET w1 == LeaveAllRooms(w, session_id, w.ac[session_id].rooms, NoRequest)
             w2 == [w1 EXCEPT !.ac = Del(@, session_id), !.order = Without(@, session_id)]
         IN CleanUp(w2, Tail(inactive_sessions))
    ELSE CleanUp(w, Tail(inactive_sessions))

\* One pass of the loop body.
cleanup_inactive_connections(w) ==
  CleanUp(w, InactiveSessions(w.ac, w.order, now))

\* ------------------------------------------------------------------ actions
\* The record kept of the last call: the operation, its arguments (content:
\* the text a send_message carried), the rooms the calling session had joined
\* when the call started and what the call returned (accepted, for a
\* connect).
Called(op, sid, room_id, user_id, content, accepted) ==
  [op |-> op, sid |-> sid, room_id |-> room_id, user_id |-> user_id,
   content |-> content,
   pre_rooms |-> IF sid \in DOMAIN active_connections
                 THEN active_connections[sid].rooms ELSE {},
   accepted |-> accepted]

Commit(w) ==
  /\ active_connections' = w.ac
  /\ conn_order' = w.order
  /\ room_users' = w.ru
  /\ user_rooms' = w.ur
  /\ sio_rooms' = w.sio
  /\ UserRoom' = w.rows
  /\ ChatMessage' = w.msgs

\* The rows the store holds before the first connection: u1 is a member of
\* the private room "staff" and has been muted there.
InitUserRoomTables ==
  {[k \in Users \X RoomIds |->
      IF k = <<"u1", "staff">> THEN NewUserRoom(c1) ELSE NoRow] : c1 \in {FALSE}}

\* No handler of the session is suspended.
Idle ==
  [stage |-> "idle", room_id |-> NoneId, user_id |-> NoneId, content |-> << >>,
   id |-> 0, persisted |-> FALSE, found |-> FALSE]

Init ==
  /\ active_connections = << >>
  /\ conn_order = << >>
  /\ room_users = << >>
  /\ user_rooms = << >>
  /\ sio_rooms = [r \in RoomIds |-> {}]
  /\ transport = [s \in Sessions |-> "new"]
  /\ UserRoom \in InitUserRoomTables
  /\ ChatRoom = ChatRoomRows
  /\ UserSession = UserSessionRows
  /\ ChatMessage = << >>
  /\ now = 0
  /\ inflight = [s \in Sessions |-> Idle]
  /\ delivered = << >>
  /\ UserRoomDuplicates = [k \in Users \X RoomIds |-> 0]
  /\ last = [op |-> "init", sid |-> NoneId, room_id |-> NoneId, user_id |-> NoneId,
                     content |-> << >>, pre_rooms |-> {}, accepted |-> FALSE]

\* A client opens a transport connection presenting a token.
Connect(s, token) ==
  /\ transport[s] = "new"
  /\ LET w == handle_connect(World, s, token, now) IN
       /\ Commit(w)
       /\ transport' = [transport EXCEPT ![s] = IF ConnectAccepted(token, now) THEN "open" ELSE "closed"]
       /\ last' = Called("connect", s, NoneId, NoneId, << >>, ConnectAccepted(token, now))
  /\ UserSession' = IF token = NoneId THEN UserSession
                    ELSE UserSessionAfterVerify(UserSession, token, now)
  /\ UNCHANGED <<now, ChatRoom, inflight, delivered,
                 UserRoomDuplicates>>

\* A connect whose handler raises after it has stored the entry.
ConnectRaises(s, token) ==
  /\ transport[s] = "new"
  /\ ConnectAccepted(token, now)
  /\ LET w == handle_connect_raises(World, s, token, now) IN
       /\ Commit(w)
       /\ transport' = [transport EXCEPT ![s] = "closed"]
       /\ last' = Called("connect_raises", s, NoneId, NoneId, << >>, FALSE)
  /\ UserSession' = UserSessionAfterVerify(UserSession, token, now)
  /\ UNCHANGED <<now, ChatRoom, inflight, delivered,
                 UserRoomDuplicates>>

\* The transport connection of s closes: the handler runs, then the server
\* drops the sid from every room.
Disconnect(s) ==
  /\ transport[s] = "open"
  /\ LET w == handle_disconnect(World, s) IN
       /\ Commit([w EXCEPT !.sio = [r \in RoomIds |-> w.sio[r] \ {s}]])
       /\ last' = Called("disconnect", s, NoneId, NoneId, << >>, TRUE)
  /\ transport' = [transport EXCEPT ![s] = "closed"]
  /\ UNCHANGED <<now, ChatRoom, UserSession, inflight, delivered,
                 UserRoomDuplicates>>

JoinRoom(s, room_id) ==
  /\ transport[s] = "open"
  /\ LET w == handle_join_room(World, s, room_id) IN
       /\ Commit(w)
       /\ last' = Called("join_room", s, room_id, NoneId, << >>, TRUE)
  /\ UNCHANGED <<transport, now, ChatRoom, UserSession, inflight, delivered,
                 UserRoomDuplicates>>

LeaveRoom(s, room_id) ==
  /\ transport[s] = "open"
  /\ LET w == handle_leave_room(World, s, room_id) IN
       /\ Commit(w)
       /\ last' = Called("leave_room", s, room_id, NoneId, << >>, TRUE)
  /\ UNCHANGED <<transport, now, ChatRoom, UserSession, inflight, delivered,
                 UserRoomDuplicates>>

SendMessage(s, room_id, raw) ==
  /\ transport[s] = "open"
  /\ LET w == handle_send_message(World, s, room_id, raw) IN
       /\ Len(w.msgs) <= MaxMessages
       /\ Commit(w)
       /\ last' = Called("send_message", s, room_id, NoneId, raw, TRUE)
  /\ UNCHANGED <<transport, now, ChatRoom, UserSession, inflight, delivered,
                 UserRoomDuplicates>>

Notify(user_id) ==
  /\ LET w == send_notification(World, user_id) IN
       /\ Commit(w)
       /\ last' = Called("send_notification", NoneId, NoneId, user_id, << >>, TRUE)
  /\ UNCHANGED <<transport, now, ChatRoom, UserSession, inflight, delivered,
                 UserRoomDuplicates>>

SystemMessage(room_id) ==
  /\ LET w == broadcast_system_message(World, room_id) IN
       /\ Commit(w)
       /\ last' = Called("broadcast_system_message", NoneId, room_id, NoneId, << >>, TRUE)
  /\ UNCHANGED <<transport, now, ChatRoom, UserSession, inflight, delivered,
                 UserRoomDuplicates>>

\* One sweep of the cleanup task.
ReaperSweep ==
  /\ LET w == cleanup_inactive_connections(World) IN
       /\ Commit(w)
       /\ last' = Called("cleanup", NoneId, NoneId, NoneId, << >>, TRUE)
  /\ UNCHANGED <<transport, now, ChatRoom, UserSession, inflight, delivered,
                 UserRoomDuplicates>>

\* Time passes.
Tick ==
  /\ now < MaxTicks * TickSeconds
  /\ now' = now + TickSeconds
  /\ last' = Called("tick", NoneId, NoneId, NoneId, << >>, TRUE)
  /\ UNCHANGED <<active_connections, conn_order, room_users, user_rooms, sio_rooms,
                 transport, UserRoom, ChatRoom, UserSession, ChatMessage, inflight, delivered,
                 UserRoomDuplicates>>

\* Another part of the application clears the is_active flag of a room.
DeactivateRoom(room_id) ==
  /\ ChatRoom[room_id].is_active
  /\ ChatRoom' = [ChatRoom EXCEPT ![room_id].is_active = FALSE]
  /\ last' = Called("deactivate_room", NoneId, room_id, NoneId, << >>, TRUE)
  /\ UNCHANGED <<active_connections, conn_order, room_users, user_rooms, sio_rooms,
                 transport, UserRoom, UserSession, ChatMessage, now, inflight, delivered,
                 UserRoomDuplicates>>

TypingStart(s, room_id) ==
  /\ transport[s] = "open"
  /\ LET w == handle_typing_start(World, s, room_id) IN
       /\ Commit(w)
       /\ last' = Called("typing_start", s, room_id, NoneId, << >>, TRUE)
  /\ UNCHANGED <<transport, now, ChatRoom, UserSession, inflight, delivered,
                 UserRoomDuplicates>>

TypingStop(s, room_id) ==
  /\ transport[s] = "open"
  /\ LET w == handle_typing_stop(World, s, room_id) IN
       /\ Commit(w)
       /\ last' = Called("typing_stop", s, room_id, NoneId, << >>, TRUE)
  /\ UNCHANGED <<transport, now, ChatRoom, UserSession, inflight, delivered,
                 UserRoomDuplicates>>

GetRoomUsers(s, room_id) ==
  /\ transport[s] = "open"
  /\ LET w == handle_get_room_users(World, s, room_id) IN
       /\ Commit(w)
       /\ last' = Called("get_room_users", s, room_id, NoneId, << >>, TRUE)
  /\ UNCHANGED <<transport, now, ChatRoom, UserSession, inflight, delivered,
                 UserRoomDuplicates>>

\* ------------------------------------------------- handlers, step by step
\* The server runs every handler in a green thread of its own (async_mode
\* 'eventlet'); a handler can be suspended where it calls the store or the
\* transport, and other handlers and the cleanup task run meanwhile.  inflight
\* holds the local variables of the suspended handler of a session.

\* handle_send_message up to the membership check.
SendStart(s, room_id, raw) ==
  /\ transport[s] = "open"
  /\ inflight[s].stage = "idle"
  /\ inflight' =
       IF /\ s \in DOMAIN active_connections
          /\ room_id # NoneId
          /\ strip(raw) # << >>
          /\ room_id \in active_connections[s].rooms
       THEN [inflight EXCEPT ![s] = [Idle EXCEPT !.stage = "send_persist",
                                                 !.room_id = room_id,
                                                 !.user_id = active_connections[s].user_id,
                                                 !.content = strip(raw)]]
       ELSE inflight
  /\ last' = Called("send_message", s, room_id, NoneId, raw, TRUE)
  /\ UNCHANGED <<active_connections, conn_order, room_users, user_rooms, sio_rooms,
                 transport, UserRoom, ChatRoom, UserSession, ChatMessage, now, delivered,
                 UserRoomDuplicates>>

\* The permission query and the commit of the message row.
SendPersist(s) ==
  /\ inflight[s].stage = "send_persist"
  /\ Len(ChatMessage) < MaxSends
  /\ LET room_id == inflight[s].room_id
         user_id == inflight[s].user_id
         row == UserRoom[<<user_id, room_id>>]
     IN IF row.exists /\ row.is_active /\ ~row.can_send_messages
        THEN /\ inflight' = [inflight EXCEPT ![s] = Idle]
             /\ UNCHANGED ChatMessage
        ELSE /\ ChatMessage' = Append(ChatMessage, [user_id |-> user_id, room_id |-> room_id,
                                                     content |-> inflight[s].content])
             /\ inflight' = [inflight EXCEPT ![s].stage = "send_broadcast",
                                              ![s].id = Len(ChatMessage) + 1]
  /\ last' = Called("send_message_persist", s, inflight[s].room_id, NoneId, << >>, TRUE)
  /\ UNCHANGED <<active_connections, conn_order, room_users, user_rooms, sio_rooms,
                 transport, UserRoom, ChatRoom, UserSession, now, delivered,
                 UserRoomDuplicates>>

\* The broadcast of new_message to the room.
SendBroadcast(s) ==
  /\ inflight[s].stage = "send_broadcast"
  /\ delivered' = Append(delivered, [id |-> inflight[s].id, room_id |-> inflight[s].room_id,
                                     user_id |-> inflight[s].user_id,
                                     to |-> sio_rooms[inflight[s].room_id]])
  /\ inflight' = [inflight EXCEPT ![s] = Idle]
  /\ last' = Called("send_message_broadcast", s, inflight[s].room_id, NoneId, << >>, TRUE)
  /\ UNCHANGED <<active_connections, conn_order, room_users, user_rooms, sio_rooms,
                 transport, UserRoom, ChatRoom, UserSession, ChatMessage, now,
                 UserRoomDuplicates>>

\* handle_join_room up to the query of the room.
JoinStart(s, room_id) ==
  /\ transport[s] = "open"
  /\ inflight[s].stage = "idle"
  /\ inflight' =
       IF s \in DOMAIN active_connections /\ room_id # NoneId
       THEN [inflight EXCEPT ![s] = [Idle EXCEPT !.stage = "join_enter",
                                                 !.room_id = room_id,
                                                 !.user_id = active_connections[s].user_id]]
       ELSE inflight
  /\ last' = Called("join_room", s, room_id, NoneId, << >>, TRUE)
  /\ UNCHANGED <<active_connections, conn_order, room_users, user_rooms, sio_rooms,
                 transport, UserRoom, ChatRoom, UserSession, ChatMessage, now, delivered,
                 UserRoomDuplicates>>

\* The validation of the room and of the access to it, then join_room(room_id)
\* and the updates of 'rooms', room_users and user_rooms.  When the entry of
\* the session is gone, the sid, if still connected, has been subscribed
\* before the lookup of the entry raises.
JoinEnterThenEmit(s) ==
  /\ inflight[s].stage = "join_enter"
  /\ LET room_id == inflight[s].room_id
         user_id == inflight[s].user_id
         row == UserRoom[<<user_id, room_id>>]
         denied == IF ~RoomOk(room_id) THEN TRUE
                   ELSE ~ChatRoom[room_id].is_public /\ ~(row.exists /\ row.is_active)
     IN IF denied
        THEN /\ inflight' = [inflight EXCEPT ![s] = Idle]
             /\ UNCHANGED <<active_connections, room_users, user_rooms, sio_rooms>>
        ELSE IF s \notin DOMAIN active_connections
        THEN /\ sio_rooms' = IF transport[s] = "open"
                              THEN [sio_rooms EXCEPT ![room_id] = @ \cup {s}]
                              ELSE sio_rooms
             /\ inflight' = [inflight EXCEPT ![s] = Idle]
             /\ UNCHANGED <<active_connections, room_users, user_rooms>>
        ELSE LET w == JoinRegistryAndIndex(World, s, room_id) IN
               /\ active_connections' = w.ac
               /\ room_users' = w.ru
               /\ user_rooms' = w.ur
               /\ sio_rooms' = w.sio
               /\ inflight' = [inflight EXCEPT ![s].stage = "join_emit"]
  /\ last' = Called("join_room_enter", s, inflight[s].room_id, NoneId, << >>, TRUE)
  /\ UNCHANGED <<conn_order, transport, UserRoom, ChatRoom, UserSession, ChatMessage,
                 now, delivered,
                 UserRoomDuplicates>>

JoinEnter(s) ==
  /\ inflight[s].stage = "join_enter"
  /\ LET room_id == inflight[s].room_id
         user_id == inflight[s].user_id
         row == UserRoom[<<user_id, room_id>>]
         denied == IF ~RoomOk(room_id) THEN TRUE
                   ELSE ~ChatRoom[room_id].is_public /\ ~(row.exists /\ row.is_active)
     IN IF denied
        THEN /\ inflight' = [inflight EXCEPT ![s] = Idle]
             /\ UNCHANGED <<active_connections, room_users, user_rooms, sio_rooms>>
        ELSE IF s \notin DOMAIN active_connections
        THEN /\ sio_rooms' = IF transport[s] = "open"
                              THEN [sio_rooms EXCEPT ![room_id] = @ \cup {s}]
                              ELSE sio_rooms
             /\ inflight' = [inflight EXCEPT ![s] = Idle]
             /\ UNCHANGED <<active_connections, room_users, user_rooms>>
        ELSE LET w == JoinRegistryAndIndex(World, s, room_id) IN
               /\ active_connections' = w.ac
               /\ room_users' = w.ru
               /\ user_rooms' = w.ur
               /\ sio_rooms' = w.sio
               /\ inflight' = [inflight EXCEPT ![s].stage = "join_persist"]
  /\ last' = Called("join_room_enter", s, inflight[s].room_id, NoneId, << >>, TRUE)
  /\ UNCHANGED <<conn_order, transport, UserRoom, ChatRoom, UserSession, ChatMessage,
                 now, delivered,
                 UserRoomDuplicates>>

\* The query of the UserRoom row and the commit of the join.
JoinPersist(s) ==
  /\ inflight[s].stage = "join_persist"
  /\ UserRoom' = PersistJoin(World, inflight[s].user_id, inflight[s].room_id).rows
  /\ inflight' = [inflight EXCEPT ![s].stage = "join_emit", ![s].persisted = TRUE]
  /\ last' = Called("join_room_persist", s, inflight[s].room_id, NoneId, << >>, TRUE)
  /\ UNCHANGED <<active_connections, conn_order, room_users, user_rooms, sio_rooms,
                 transport, ChatRoom, UserSession, ChatMessage, now, delivered,
                 UserRoomDuplicates>>

\* The query of the UserRoom row alone: the handler keeps what first()
\* returned in user_room.
JoinLookup(s) ==
  /\ inflight[s].stage = "join_persist"
  /\ inflight' = [inflight EXCEPT
                    ![s].stage = "join_commit",
                    ![s].found = UserRoom[<<inflight[s].user_id, inflight[s].room_id>>].exists]
  /\ last' = Called("join_room_lookup", s, inflight[s].room_id, NoneId, << >>, TRUE)
  /\ UNCHANGED <<active_connections, conn_order, room_users, user_rooms, sio_rooms,
                 transport, UserRoom, ChatRoom, UserSession, ChatMessage, now, delivered,
                 UserRoomDuplicates>>

\* The rest of the persisted join: the row found is made active, or, when
\* the query found none, a new row is added, and the session is committed.
\* The table has no unique constraint on (user_id, room_id): the insert
\* succeeds also when another handler has added a row for the pair since
\* the query.
JoinCommit(s) ==
  /\ inflight[s].stage = "join_commit"
  /\ LET k == <<inflight[s].user_id, inflight[s].room_id>> IN
       IF inflight[s].found
       THEN /\ UserRoom' = [UserRoom EXCEPT ![k].is_active = TRUE, ![k].left_at = Null]
            /\ UNCHANGED UserRoomDuplicates
       ELSE IF ~UserRoom[k].exists
       THEN /\ UserRoom' = [UserRoom EXCEPT ![k] = NewUserRoom(TRUE)]
            /\ UNCHANGED UserRoomDuplicates
       ELSE /\ UserRoomDuplicates' = [UserRoomDuplicates EXCEPT ![k] = @ + 1]
            /\ UNCHANGED UserRoom
  /\ inflight' = [inflight EXCEPT ![s].stage = "join_emit", ![s].persisted = TRUE]
  /\ last' = Called("join_room_commit", s, inflight[s].room_id, NoneId, << >>, TRUE)
  /\ UNCHANGED <<active_connections, conn_order, room_users, user_rooms, sio_rooms,
                 transport, ChatRoom, UserSession, ChatMessage, now, delivered>>

\* The commit raises: the except clause answers 'Failed to join room'.
JoinPersistFails(s) ==
  /\ inflight[s].stage = "join_persist"
  /\ inflight' = [inflight EXCEPT ![s] = Idle]
  /\ last' = Called("join_room_persist_fails", s, inflight[s].room_id, NoneId, << >>, TRUE)
  /\ UNCHANGED <<active_connections, conn_order, room_users, user_rooms, sio_rooms,
                 transport, UserRoom, ChatRoom, UserSession, ChatMessage, now, delivered,
                 UserRoomDuplicates>>

\* The emits of user_joined, room_joined and recent_messages; the lookup of
\* the username raises when the entry of the session is gone.
JoinEmit(s) ==
  /\ inflight[s].stage = "join_emit"
  /\ inflight' = [inflight EXCEPT ![s] = Idle]
  /\ last' = Called("join_room_emit", s, inflight[s].room_id, NoneId, << >>,
                    s \in DOMAIN active_connections)
  /\ UNCHANGED <<active_connections, conn_order, room_users, user_rooms, sio_rooms,
                 transport, UserRoom, ChatRoom, UserSession, ChatMessage, now, delivered,
                 UserRoomDuplicates>>

\* A day passes: the clock advances by the TTL of a connection.
TickDay ==
  /\ now < MaxDays * TTL
  /\ now' = now + TTL
  /\ last' = Called("tick", NoneId, NoneId, NoneId, << >>, TRUE)
  /\ UNCHANGED <<active_connections, conn_order, room_users, user_rooms, sio_rooms,
                 transport, UserRoom, ChatRoom, UserSession, ChatMessage, inflight, delivered,
                 UserRoomDuplicates>>

Next ==
  \/ \E s \in Sessions : \E token \in TokensOf(s) : Connect(s, token)
  \/ \E s \in Sessions : Disconnect(s)
  \/ \E s \in Sessions, room_id \in JoinInputs : JoinRoom(s, room_id)
  \/ \E s \in Sessions, room_id \in LeaveInputs : LeaveRoom(s, room_id)
  \/ \E s \in Sessions, room_id \in SendInputs, raw \in Contents : SendMessage(s, room_id, raw)
  \/ \E user_id \in NotifyInputs : Notify(user_id)
  \/ \E room_id \in SystemInputs : SystemMessage(room_id)
  \/ ReaperSweep
  \/ Tick

Spec == Init /\ [][Next]_vars

\* Only the four session operations: connect, join_room, leave_room and
\* disconnect, by both sessions.
NextSessions ==
  \/ \E s \in Sessions : \E token \in TokensOf(s) : Connect(s, token)
  \/ \E s \in Sessions : Disconnect(s)
  \/ \E s \in Sessions, room_id \in JoinInputs : JoinRoom(s, room_id)
  \/ \E s \in Sessions, room_id \in LeaveInputs : LeaveRoom(s, room_id)

SpecSessions == Init /\ [][NextSessions]_vars

\* Connects that succeed, that are rejected and that fail in the handler.
NextConnects ==
  \/ \E s \in Sessions : \E token \in TokensOf(s) : Connect(s, token)
  \/ \E s \in Sessions : \E token \in TokensOf(s) : ConnectRaises(s, token)
  \/ \E s \in Sessions : Disconnect(s)
  \/ \E s \in Sessions, room_id \in JoinInputs : JoinRoom(s, room_id)
  \/ \E s \in Sessions, room_id \in LeaveInputs : LeaveRoom(s, room_id)

SpecConnects == Init /\ [][NextConnects]_vars

\* The operations of the sessions on rooms whose is_active flag can be
\* cleared while sessions are joined.
NextRooms ==
  \/ \E s \in Sessions : \E token \in TokensOf(s) : Connect(s, token)
  \/ \E s \in Sessions, room_id \in JoinInputs : JoinRoom(s, room_id)
  \/ \E s \in Sessions, room_id \in LeaveInputs : LeaveRoom(s, room_id)
  \/ \E s \in Sessions, room_id \in SendInputs, raw \in Contents : SendMessage(s, room_id, raw)
  \/ \E room_id \in DeactivateInputs : DeactivateRoom(room_id)

SpecRooms == Init /\ [][NextRooms]_vars

\* The session operations together with the requests that only read:
\* typing_start, typing_stop and get_room_users.
NextReaders ==
  \/ \E s \in Sessions : \E token \in TokensOf(s) : Connect(s, token)
  \/ \E s \in Sessions : Disconnect(s)
  \/ \E s \in Sessions, room_id \in JoinInputs : JoinRoom(s, room_id)
  \/ \E s \in Sessions, room_id \in LeaveInputs : LeaveRoom(s, room_id)
  \/ \E s \in Sessions, room_id \in TypingInputs : TypingStart(s, room_id)
  \/ \E s \in Sessions, room_id \in TypingInputs : TypingStop(s, room_id)
  \/ \E s \in Sessions, room_id \in TypingInputs : GetRoomUsers(s, room_id)

SpecReaders == Init /\ [][NextReaders]_vars

\* Handlers of join_room and send_message that are suspended at their calls
\* of the store, with connects and disconnects in between.
NextInterleaved ==
  \/ \E s \in Sessions : \E token \in TokensOf(s) : Connect(s, token)
  \/ \E s \in Sessions : Disconnect(s)
  \/ \E s \in Sessions, room_id \in RaceJoinInputs : JoinStart(s, room_id)
  \/ \E s \in Sessions : JoinEnter(s)
  \/ \E s \in Sessions : JoinPersist(s)
  \/ \E s \in Sessions : JoinPersistFails(s)
  \/ \E s \in Sessions : JoinEmit(s)
  \/ \E s \in Sessions, room_id \in RaceSendInputs : SendStart(s, room_id, RaceContent)
  \/ \E s \in Sessions : SendPersist(s)
  \/ \E s \in Sessions : SendBroadcast(s)

SpecInterleaved == Init /\ [][NextInterleaved]_vars

\* Join handlers that are suspended between the query of the UserRoom row
\* and the commit.
NextRows ==
  \/ \E s \in Sessions : \E token \in TokensOf(s) : Connect(s, token)
  \/ \E s \in Sessions, room_id \in RaceJoinInputs : JoinStart(s, room_id)
  \/ \E s \in Sessions : JoinEnter(s)
  \/ \E s \in Sessions : JoinLookup(s)
  \/ \E s \in Sessions : JoinCommit(s)
  \/ \E s \in Sessions : JoinEmit(s)

SpecRows == Init /\ [][NextRows]_vars

\* Connections of different ages, at, under and over the TTL, and the
\* cleanup task.
NextReaper ==
  \/ \E s \in Sessions : \E token \in TokensOf(s) : Connect(s, token)
  \/ \E s \in Sessions, room_id \in JoinInputs : JoinRoom(s, room_id)
  \/ \E s \in Sessions : Disconnect(s)
  \/ ReaperSweep
  \/ TickDay

SpecReaper == Init /\ [][NextReaper]_vars

\* The cleanup task is an endless loop that sleeps an hour after every sweep,
\* also after one that ended in its except clause: a sweep that would change
\* something is eventually run.
SpecReaperFair == Init /\ [][NextReaper]_vars /\ WF_vars(ReaperSweep)

\* ------------------------------------------------------------ observations
\* The sessions of the registry ac whose 'rooms' contains room_id.
SessionsIn(ac, room_id) ==
  {s \in DOMAIN ac : room_id \in ac[s].rooms}

\* The user_ids of those sessions.
UsersIn(ac, room_id) ==
  {ac[s].user_id : s \in SessionsIn(ac, room_id)}

\* The registry entries of a user.
SessionsOf(ac, user_id) ==
  {s \in DOMAIN ac : ac[s].user_id = user_id}

\* The events of a handler's run with a given name.
EventsNamed(w, name) ==
  {i \in 1..Len(w.ev) : w.ev[i].event = name}

\* The error messages a handler's run emitted.
Errors(w) ==
  {w.ev[i].message : i \in EventsNamed(w, "error")}

\* Registry, index and UserRoom rows of two worlds agree.
SameMembership(w1, w2) ==
  /\ w1.ac = w2.ac
  /\ w1.ru = w2.ru
  /\ w1.ur = w2.ur
  /\ w1.rows = w2.rows

\* ------------------------------------------------------------------ claims

\* C1: after any sequence of connect, join_room, leave_room and disconnect
\* operations, room_users[R] is, for every room R, the set of user_ids of the
\* entries of active_connections whose 'rooms' contains R.
C1_IndexEqualsRegistry ==
  \A R \in RoomIds : Get(room_users, R, {}) = UsersIn(active_connections, R)

\* C2: for every live session and every room it has joined, the store holds
\* a UserRoom row of the session's user and that room with is_active = true.
C2_RuntimeWithinDurable ==
  \A s \in DOMAIN active_connections : \A R \in active_connections[s].rooms :
    LET row == UserRoom[<<active_connections[s].user_id, R>>] IN
      row.exists /\ row.is_active

\* C3: a disconnect of a session that has joined rooms R1..Rn removes the
\* session from active_connections, leaves its user in none of
\* room_users[R1..Rn], and writes the persisted leave (is_active = false,
\* left_at set) exactly once for each of R1..Rn and for no other room.
C3_DisconnectCleansUp ==
  \A s \in DOMAIN active_connections :
    LET w == handle_disconnect(World, s)
        user_id == active_connections[s].user_id
        rooms == active_connections[s].rooms
    IN /\ s \notin DOMAIN w.ac
       /\ \A R \in RoomIds :
            IF R \in rooms
            THEN /\ user_id \notin Get(w.ru, R, {})
                 /\ w.leaves[R] = 1
                 /\ ~w.rows[<<user_id, R>>].is_active
                 /\ w.rows[<<user_id, R>>].left_at = now
            ELSE /\ w.leaves[R] = 0
                 /\ w.rows[<<user_id, R>>] = UserRoom[<<user_id, R>>]

\* A session that had joined both rooms has disconnected.
C3_Witness ==
  /\ last.op = "disconnect"
  /\ last.pre_rooms = {"general", "staff"}
  /\ last.sid \notin DOMAIN active_connections
  /\ UserRoom[<<"u1", "general">>].left_at = now
  /\ UserRoom[<<"u1", "staff">>].left_at = now

\* C4: from the same state, one sweep of the cleanup task over a connection
\* older than the TTL and a voluntary disconnect of that session end with the
\* same active_connections, room_users, user_rooms and UserRoom rows.
C4_ReaperEqualsDisconnect ==
  \A s \in DOMAIN active_connections :
    InactiveSessions(active_connections, conn_order, now) = <<s>>
      => SameMembership(cleanup_inactive_connections(World), handle_disconnect(World, s))

\* C5: the sessions subscribed to a room at the transport, which are the ones
\* a room broadcast reaches, are exactly the live sessions whose 'rooms'
\* contains the room.
C5_SubscribersAreJoinedSessions ==
  \A R \in RoomIds : sio_rooms[R] = SessionsIn(active_connections, R)

\* C6: send_notification(user_id, payload) emits one notification to each
\* session of active_connections that belongs to user_id, whatever rooms it
\* has joined, and to no other session; with no such session it emits
\* nothing; it changes no state.
C6_NotifyReachesEverySessionOfUser ==
  \A user_id \in Users :
    LET w == send_notification(World, user_id)
        mine == SessionsOf(active_connections, user_id)
    IN /\ \A i \in 1..Len(w.ev) :
            w.ev[i].event = "notification" /\ \E s \in mine : w.ev[i].to = {s}
       /\ \A s \in mine : Cardinality({i \in 1..Len(w.ev) : w.ev[i].to = {s}}) = 1
       /\ SameMembership(w, World)
       /\ w.sio = sio_rooms /\ w.msgs = ChatMessage /\ w.order = conn_order

\* A notification went to a user with two live sessions, only one of which
\* has joined a room.
C6_Witness ==
  /\ last.op = "send_notification"
  /\ Cardinality(SessionsOf(active_connections, last.user_id)) = 2
  /\ \E s, t \in SessionsOf(active_connections, last.user_id) :
       active_connections[s].rooms # {} /\ active_connections[t].rooms = {}

\* C7: a leave_room for a room the session has not joined changes neither
\* the session's rooms, room_users, user_rooms nor the UserRoom rows, emits
\* no error and emits nothing to any other session.
C7_LeaveOfUnjoinedRoomIsNoOp ==
  [][\A s \in DOMAIN active_connections :
       \A R \in LeaveInputs \ (active_connections[s].rooms \cup {NoneId}) :
         LeaveRoom(s, R) =>
           LET w == handle_leave_room(World, s, R) IN
             /\ UNCHANGED <<active_connections, room_users, user_rooms, UserRoom>>
             /\ Errors(w) = {}
             /\ \A i \in 1..Len(w.ev) : w.ev[i].to \subseteq {s}]_vars

\* C8: right after a join_room of a session on a room, a second join_room of
\* the same session on the same room leaves the session's rooms, room_users
\* and user_rooms as the first call left them.
C8_SecondJoinChangesNothing ==
  (/\ last.op = "join_room"
   /\ last.sid \in DOMAIN active_connections
   /\ last.room_id \in active_connections[last.sid].rooms)
    => LET w == handle_join_room(World, last.sid, last.room_id) IN
         /\ w.ac = active_connections
         /\ w.ru = room_users
         /\ w.ur = user_rooms

\* A session has joined a room it had already joined, while in another room
\* and with another user present.
C8_Witness ==
  /\ last.op = "join_room"
  /\ last.sid \in DOMAIN active_connections
  /\ last.room_id \in last.pre_rooms
  /\ active_connections[last.sid].rooms = {"general", "staff"}
  /\ Cardinality(Get(room_users, last.room_id, {})) = 2

\* C9: a send_message of a session that has joined the room, with content,
\* whose user has a UserRoom row for the room with can_send_messages = false
\* is answered with the permission error, adds no ChatMessage row and
\* broadcasts no new_message.
C9_MutedUserCannotSend ==
  [][\A s \in DOMAIN active_connections : \A R \in active_connections[s].rooms :
       \A raw \in Contents :
         LET row == UserRoom[<<active_connections[s].user_id, R>>]
             w == handle_send_message(World, s, R, raw)
         IN (SendMessage(s, R, raw) /\ row.exists /\ ~row.can_send_messages
               /\ strip(raw) # <<>>)
              => /\ Errors(w) = {"You do not have permission to send messages"}
                 /\ ChatMessage' = ChatMessage
                 /\ EventsNamed(w, "new_message") = {}]_vars

\* C10: a send_message that violates several preconditions gets the error of
\* the first one violated in the order: not in room, room unavailable,
\* permission denied, empty message.
ErrorKind(message) ==
  CASE message = "You are not in this room" -> "NotInRoom"
    [] message = "You do not have permission to send messages" -> "PermissionDenied"
    [] message = "Room ID and content required" -> "EmptyMessage"
    [] OTHER -> "Other"

FirstViolated(s, R, raw) ==
  LET row == UserRoom[<<active_connections[s].user_id, R>>] IN
    IF R \notin active_connections[s].rooms THEN {"NotInRoom"}
    ELSE IF ~RoomOk(R) THEN {"RoomUnavailable"}
    ELSE IF row.exists /\ ~row.can_send_messages THEN {"PermissionDenied"}
    ELSE IF strip(raw) = <<>> THEN {"EmptyMessage"}
    ELSE {}

C10_FirstViolatedPreconditionReported ==
  [][\A s \in DOMAIN active_connections : \A R \in SendInputs \ {NoneId} :
       \A raw \in Contents :
         SendMessage(s, R, raw) =>
           LET w == handle_send_message(World, s, R, raw) IN
             {ErrorKind(m) : m \in Errors(w)} = FirstViolated(s, R, raw)]_vars

\* C11: a send_message of a session to a room it has joined and that is no
\* longer active is answered with an error, adds no ChatMessage row and
\* broadcasts no new_message.
C11_SendToInactiveRoomRejected ==
  [][\A s \in DOMAIN active_connections : \A R \in active_connections[s].rooms :
       \A raw \in Contents :
         (SendMessage(s, R, raw) /\ ~RoomOk(R))
           => LET w == handle_send_message(World, s, R, raw) IN
                /\ Errors(w) # {}
                /\ ChatMessage' = ChatMessage
                /\ EventsNamed(w, "new_message") = {}]_vars

\* C12: a send_message whose content consists of whitespace only is answered
\* with an error event to the sender alone, adds no ChatMessage row and
\* broadcasts nothing, whatever rooms the session has joined and whatever
\* room it names.
Blank(raw) ==
  \A i \in 1..Len(raw) : raw[i] = " "

C12_EmptyMessageRejected ==
  \A s \in Sessions : \A R \in SendInputs : \A raw \in Contents :
    Blank(raw) =>
      LET w == handle_send_message(World, s, R, raw) IN
        /\ EventsNamed(w, "error") # {}
        /\ \A i \in 1..Len(w.ev) : w.ev[i].event = "error" /\ w.ev[i].to = {s}
        /\ w.msgs = ChatMessage
        /\ SameMembership(w, World)

\* A session has sent a blank message to a room it has joined together with
\* a session of another user.
C12_Witness ==
  /\ last.op = "send_message"
  /\ Blank(last.content)
  /\ last.sid \in DOMAIN active_connections
  /\ last.room_id \in active_connections[last.sid].rooms
  /\ Cardinality(SessionsIn(active_connections, last.room_id)) = 2
  /\ ChatMessage = << >>

\* C13: a send_message of a session that has joined the room, to an active
\* room, by a user who is not muted there, with content that is not blank,
\* appends exactly one ChatMessage row for the room, leaving the rows before
\* it as they were, and emits exactly one new_message carrying the sender's
\* user_id and the trimmed content, which reaches every session that has
\* joined the room, the sender's included.
IsTrimOf(c, raw) ==
  /\ c # << >>
  /\ Head(c) # " "
  /\ c[Len(c)] # " "
  /\ \E i, j \in 1..Len(raw) :
       /\ c = SubSeq(raw, i, j)
       /\ \A k \in (1..(i - 1)) \cup ((j + 1)..Len(raw)) : raw[k] = " "

C13_AcceptedSendPersistsAndBroadcasts ==
  \A s \in DOMAIN active_connections : \A R \in active_connections[s].rooms :
    \A raw \in Contents :
      LET user_id == active_connections[s].user_id
          row == UserRoom[<<user_id, R>>]
          w == handle_send_message(World, s, R, raw)
      IN (~Blank(raw) /\ RoomOk(R) /\ ~(row.exists /\ ~row.can_send_messages))
           => /\ Len(w.msgs) = Len(ChatMessage) + 1
              /\ SubSeq(w.msgs, 1, Len(ChatMessage)) = ChatMessage
              /\ w.msgs[Len(w.msgs)].room_id = R
              /\ w.msgs[Len(w.msgs)].user_id = user_id
              /\ IsTrimOf(w.msgs[Len(w.msgs)].content, raw)
              /\ Len(w.ev) = 1
              /\ w.ev[1].event = "new_message"
              /\ w.ev[1].user_id = user_id
              /\ w.ev[1].room_id = R
              /\ w.ev[1].content = w.msgs[Len(w.msgs)].content
              /\ SessionsIn(active_connections, R) \subseteq w.ev[1].to
              /\ s \in w.ev[1].to

\* A message with content has been sent to a room that sessions of two
\* different users have joined, and is the one row of the table.
C13_Witness ==
  /\ last.op = "send_message"
  /\ ~Blank(last.content)
  /\ Len(ChatMessage) = 1
  /\ ChatMessage[1].room_id = last.room_id
  /\ ChatMessage[1].content = <<"h", "i">>
  /\ last.sid \in SessionsIn(active_connections, last.room_id)
  /\ Cardinality(UsersIn(active_connections, last.room_id)) = 2

\* C14: a join_room on an active room that is not public, by a session whose
\* user has no UserRoom row for the room with is_active = true, is answered
\* with the error 'Access denied to private room' to that session alone and
\* changes neither the session's rooms, room_users, user_rooms, the UserRoom
\* rows nor the transport's subscriptions; no user_joined is emitted.
C14_PrivateRoomDenied ==
  \A s \in DOMAIN active_connections : \A R \in Rooms :
    LET row == UserRoom[<<active_connections[s].user_id, R>>]
        w == handle_join_room(World, s, R)
    IN (RoomOk(R) /\ ~ChatRoom[R].is_public /\ ~(row.exists /\ row.is_active))
         => /\ Errors(w) = {"Access denied to private room"}
            /\ \A i \in 1..Len(w.ev) : w.ev[i].event = "error" /\ w.ev[i].to = {s}
            /\ SameMembership(w, World)
            /\ w.sio = sio_rooms

\* A member of the private room whose row was set inactive by a leave has
\* asked to join it again and has not been let in.
C14_Witness ==
  /\ last.op = "join_room"
  /\ last.room_id = "staff"
  /\ last.sid \in DOMAIN active_connections
  /\ "staff" \notin active_connections[last.sid].rooms
  /\ LET row == UserRoom[<<active_connections[last.sid].user_id, "staff">>] IN
       row.exists /\ ~row.is_active

\* C15: a join_room on a room that has no ChatRoom row or whose row is not
\* active is answered with an error to the caller and changes neither the
\* registry, the index, the UserRoom rows nor the transport's subscriptions.
\* A join_room that is let in ends with the room in the session's 'rooms',
\* the user in room_users, the room in user_rooms and the UserRoom row
\* active; registry and index are assigned before the store is written: when
\* the commit fails they already hold the join and the rows are as before.
C15_JoinValidatesBeforeMutating ==
  \A s \in DOMAIN active_connections : \A R \in JoinInputs \ {NoneId} :
    LET user_id == active_connections[s].user_id
        w == handle_join_room(World, s, R)
        wf == handle_join_room_commit_fails(World, s, R)
    IN IF R \notin DOMAIN ChatRoom \/ ~ChatRoom[R].is_active
       THEN /\ Errors(w) = {"Room not found or inactive"}
            /\ \A i \in 1..Len(w.ev) : w.ev[i].event = "error" /\ w.ev[i].to = {s}
            /\ SameMembership(w, World)
            /\ w.sio = sio_rooms
            /\ SameMembership(wf, World)
       ELSE Errors(w) = {}
              => /\ R \in w.ac[s].rooms
                 /\ user_id \in w.ru[R]
                 /\ R \in w.ur[user_id]
                 /\ w.rows[<<user_id, R>>].exists /\ w.rows[<<user_id, R>>].is_active
                 /\ Errors(wf) = {"Failed to join room"}
                 /\ wf.ac = w.ac /\ wf.ru = w.ru /\ wf.ur = w.ur
                 /\ wf.rows = UserRoom

\* A session has asked to join a room whose is_active flag was cleared after
\* another session had joined it, and has not been let in.
C15_Witness ==
  /\ last.op = "join_room"
  /\ last.room_id = "general"
  /\ ~ChatRoom["general"].is_active
  /\ last.sid \in DOMAIN active_connections
  /\ "general" \notin active_connections[last.sid].rooms
  /\ SessionsIn(active_connections, "general") # {}
  /\ ~UserRoom[<<active_connections[last.sid].user_id, "general">>].exists

\* C16: a join_room that is let in sends the joining session one room_joined
\* whose user_count is the number of users in room_users of the room after
\* the join, which is 1 when no other session is in the room (none has it in
\* its 'rooms' and none is subscribed to it), and emits one user_joined for
\* the user to the room, which the joining session receives too.
C16_JoinReportsUserCount ==
  [][\A s \in DOMAIN active_connections : \A R \in Rooms :
       LET user_id == active_connections[s].user_id
           w == handle_join_room(World, s, R)
           joined == EventsNamed(w, "room_joined")
           notice == EventsNamed(w, "user_joined")
       IN (JoinRoom(s, R) /\ Errors(w) = {})
            => /\ Cardinality(joined) = 1
               /\ \A i \in joined :
                    /\ w.ev[i].to = {s}
                    /\ w.ev[i].room_id = R
                    /\ w.ev[i].user_count = Cardinality(room_users'[R])
                    /\ (SessionsIn(active_connections, R) \cup sio_rooms[R]) \subseteq {s}
                         => w.ev[i].user_count = 1
               /\ Cardinality(notice) = 1
               /\ \A i \in notice :
                    /\ w.ev[i].room_id = R
                    /\ w.ev[i].user_id = user_id
                    /\ s \in w.ev[i].to]_vars

\* The store holds a session record for the token that is active and not
\* expired at time t, and the user it belongs to exists with status ACTIVE.
ValidToken(token, t) ==
  /\ token \in DOMAIN UserSession
  /\ UserSession[token].is_active
  /\ ~(t > UserSession[token].expires_at)
  /\ UserSession[token].user_id \in Users
  /\ UserStatusOf(UserSession[token].user_id) = "ACTIVE"

\* C17: a connect without a token, or with a token that is unknown, inactive
\* or expired or whose user is missing or not ACTIVE, is rejected: the
\* transport connection is closed, active_connections, room_users and
\* user_rooms are unchanged and the session_id has no registry entry.
C17_FailedAuthCreatesNoEntry ==
  [][\A s \in Sessions : \A token \in TokensOf(s) :
       (Connect(s, token) /\ (token = NoneId \/ ~ValidToken(token, now)))
         => /\ UNCHANGED <<active_connections, conn_order, room_users, user_rooms>>
            /\ s \notin DOMAIN active_connections'
            /\ transport'[s] = "closed"
            /\ ~last'.accepted
            /\ handle_connect(World, s, token, now).ev = << >>]_vars

\* A connect has been rejected while the other session is registered and
\* has joined a room.
C17_Witness ==
  /\ last.op = "connect"
  /\ ~last.accepted
  /\ last.sid \notin DOMAIN active_connections
  /\ transport[last.sid] = "closed"
  /\ \E s \in DOMAIN active_connections : active_connections[s].rooms # {}

\* C18: _verify_session_token(token) returns the owning user exactly when
\* the store holds a session record for the token that is active and not
\* expired and the owning user exists with status ACTIVE, and none in every
\* other case; the user_sessions table is the same after the call.
C18_VerifyReturnsUserIffValid ==
  [][\A s \in Sessions : \A token \in TokensOf(s) \ {NoneId} :
       Connect(s, token)
         => /\ verify_session_token(token, now) =
                 IF ValidToken(token, now) THEN {UserSession[token].user_id} ELSE {}
            /\ UserSession' = UserSession]_vars

\* A token has been verified and accepted at a time at which another
\* session record has expired.
C18_Witness ==
  /\ last.op = "connect"
  /\ last.accepted
  /\ active_connections[last.sid].connected_at = TickSeconds
  /\ UserSession["tok_expired"].expires_at < now
  /\ UserSession = UserSessionRows

\* C19: no step changes the user_id of a session_id that is in
\* active_connections before and after the step.
C19_UserIdOfEntryNeverChanges ==
  [][\A s \in DOMAIN active_connections \cap DOMAIN active_connections' :
       active_connections'[s].user_id = active_connections[s].user_id]_vars

\* Two sessions of different users are registered, one of them since before
\* the clock advanced, and a leave_room has just been handled.
C19_Witness ==
  /\ last.op = "leave_room"
  /\ now = TickSeconds
  /\ \E s, t \in DOMAIN active_connections :
       /\ active_connections[s].user_id # active_connections[t].user_id
       /\ active_connections[s].connected_at = 0

\* C20: a connect for a session_id that is already in active_connections
\* creates no new entry: it answers no 'connected' and leaves the entry of
\* the session_id, room_users and user_rooms as they are.
C20_DuplicateSessionRejected ==
  \A s \in DOMAIN active_connections : \A token \in Tokens :
    LET w == handle_connect(World, s, token, now) IN
      /\ EventsNamed(w, "connected") = {}
      /\ w.ac[s] = active_connections[s]
      /\ w.ru = room_users
      /\ w.ur = user_rooms

\* C22: when the cleanup task and a voluntary disconnect both tear down the
\* one session that is over the TTL, in either order, the registry, the
\* index and the UserRoom rows end as after a single disconnect and every
\* room of the session has had its persisted leave exactly once.
C22_SecondTeardownIsNoOp ==
  \A s \in DOMAIN active_connections :
    InactiveSessions(active_connections, conn_order, now) = <<s>>
      => LET single == handle_disconnect(World, s)
             reaper_first == handle_disconnect(cleanup_inactive_connections(World), s)
             reaper_second == cleanup_inactive_connections(handle_disconnect(World, s))
         IN /\ SameMembership(reaper_second, single)
            /\ SameMembership(reaper_first, single)
            /\ \A R \in active_connections[s].rooms :
                 reaper_first.leaves[R] = 1 /\ reaper_second.leaves[R] = 1

\* The connections older than the TTL.
OverTTL ==
  {s \in DOMAIN active_connections : now - active_connections[s].connected_at > TTL}

\* C23: in a sweep of the cleanup task in which the teardown of a connection
\* fails (it has joined a room, and leaving a room fails in the task), every
\* connection that was over the TTL when the sweep started is removed from
\* active_connections.
C23_SweepSurvivesFailure ==
  [][(ReaperSweep /\ \E s \in OverTTL : active_connections[s].rooms # {})
       => \A s \in OverTTL : s \notin DOMAIN active_connections']_vars

\* Both sessions had joined rooms, both were over the TTL, and one sweep has
\* removed both: they are still subscribed to their rooms.
C23_Witness ==
  /\ last.op = "cleanup"
  /\ active_connections = << >>
  /\ \A s \in Sessions : transport[s] = "open" /\ \E R \in Rooms : s \in sio_rooms[R]

\* C24: a sweep of the cleanup task removes the connections whose age is
\* over the TTL and no other; a connection whose age is at or under the TTL
\* keeps its entry with its joined rooms, and its user's places in
\* room_users, user_rooms and the UserRoom rows are as before the sweep.
C24_SweepRemovesExactlyOverTTL ==
  [][ReaperSweep
       => /\ DOMAIN active_connections' = DOMAIN active_connections \ OverTTL
          /\ \A s \in DOMAIN active_connections \ OverTTL :
               LET user_id == active_connections[s].user_id IN
                 /\ active_connections'[s] = active_connections[s]
                 /\ Get(user_rooms', user_id, {}) = Get(user_rooms, user_id, {})
                 /\ \A R \in RoomIds :
                      /\ (user_id \in Get(room_users', R, {})) = (user_id \in Get(room_users, R, {}))
                      /\ UserRoom'[<<user_id, R>>] = UserRoom[<<user_id, R>>]]_vars

\* A sweep has removed a session and kept one whose age is exactly the TTL
\* and which has joined a room.
C24_Witness ==
  /\ last.op = "cleanup"
  /\ \E s \in DOMAIN active_connections :
       /\ now - active_connections[s].connected_at = TTL
       /\ active_connections[s].rooms # {}
  /\ \E t \in Sessions : transport[t] = "open" /\ t \notin DOMAIN active_connections

\* C25: when the commit of a join_room that was let in fails, the session is
\* joined in registry and index, receives room_joined and receives no error.
C25_StoreFailureNotSurfaced ==
  \A s \in DOMAIN active_connections : \A R \in Rooms :
    LET user_id == active_connections[s].user_id
        w == handle_join_room(World, s, R)
        wf == handle_join_room_commit_fails(World, s, R)
    IN Errors(w) = {}
         => /\ R \in wf.ac[s].rooms
            /\ user_id \in Get(wf.ru, R, {})
            /\ Errors(wf) = {}
            /\ \E i \in EventsNamed(wf, "room_joined") : wf.ev[i].to = {s}

\* C28: what a reader is shown agrees with the registry: the list a session
\* that has joined a room gets from get_room_users holds the session's own
\* user, and every user in it has a live session that has joined the room.
C28_ReadersSeeRegistryAndIndexAgree ==
  \A s \in DOMAIN active_connections : \A R \in active_connections[s].rooms :
    LET w == handle_get_room_users(World, s, R)
        listed == {u.id : u \in UNION {w.ev[i].users : i \in EventsNamed(w, "room_users")}}
    IN /\ active_connections[s].user_id \in listed
       /\ listed \subseteq UsersIn(active_connections, R)

\* The events a request of session s may cause when it is rejected: error
\* events to s alone.
OnlyErrorsTo(w, s) ==
  \A i \in 1..Len(w.ev) : w.ev[i].event = "error" /\ w.ev[i].to = {s}

\* C29: when a join_room, leave_room, send_message or get_room_users request
\* of a session is answered with an error, every event the request causes is
\* an error event delivered to that session alone; this holds too for the
\* join_room whose commit fails.
C29_ErrorsGoToOriginatorOnly ==
  \A s \in Sessions :
    /\ \A R \in JoinInputs :
         /\ Errors(handle_join_room(World, s, R)) # {}
              => OnlyErrorsTo(handle_join_room(World, s, R), s)
         /\ Errors(handle_join_room_commit_fails(World, s, R)) # {}
              => OnlyErrorsTo(handle_join_room_commit_fails(World, s, R), s)
         /\ Errors(handle_get_room_users(World, s, R)) # {}
              => OnlyErrorsTo(handle_get_room_users(World, s, R), s)
    /\ \A R \in LeaveInputs :
         Errors(handle_leave_room(World, s, R)) # {}
           => OnlyErrorsTo(handle_leave_room(World, s, R), s)
    /\ \A R \in SendInputs : \A raw \in Contents :
         Errors(handle_send_message(World, s, R, raw)) # {}
           => OnlyErrorsTo(handle_send_message(World, s, R, raw), s)

\* A join_room of a session has been rejected while the other session, of
\* another user, is registered and has joined a room.
C29_Witness ==
  /\ last.op = "join_room"
  /\ last.room_id \in {"staff", "archive", "nosuch"}
  /\ last.sid \in DOMAIN active_connections
  /\ last.room_id \notin active_connections[last.sid].rooms
  /\ \E t \in DOMAIN active_connections :
       /\ active_connections[t].user_id # active_connections[last.sid].user_id
       /\ active_connections[t].rooms # {}

\* C30: a typing_start or typing_stop of a session causes a user_typing
\* event only when the session has joined the room named; the event, one per
\* request, carries the flag of the request, reaches every other session
\* that has joined the room and not the session itself; registry, index,
\* UserRoom and ChatMessage rows and subscriptions are unchanged.
C30_TypingIsEphemeral ==
  \A s \in Sessions : \A R \in TypingInputs : \A flag \in BOOLEAN :
    LET w == IF flag THEN handle_typing_start(World, s, R) ELSE handle_typing_stop(World, s, R)
        joined == s \in DOMAIN active_connections /\ R \in active_connections[s].rooms
    IN /\ Len(w.ev) = IF joined THEN 1 ELSE 0
       /\ \A i \in 1..Len(w.ev) :
            /\ w.ev[i].event = "user_typing"
            /\ w.ev[i].room_id = R
            /\ w.ev[i].typing = flag
            /\ s \notin w.ev[i].to
            /\ SessionsIn(active_connections, R) \ {s} \subseteq w.ev[i].to
       /\ SameMembership(w, World)
       /\ w.msgs = ChatMessage
       /\ w.sio = sio_rooms

\* A session has sent typing_start for a room that it and a session of
\* another user have joined.
C30_Witness ==
  /\ last.op = "typing_start"
  /\ last.sid \in SessionsIn(active_connections, last.room_id)
  /\ Cardinality(UsersIn(active_connections, last.room_id)) = 2

\* The steps of the handlers of join_room and send_message.
RequestSteps ==
  {"join_room", "join_room_enter", "join_room_persist", "join_room_persist_fails",
   "join_room_emit", "send_message", "send_message_persist", "send_message_broadcast"}

C26_PersistBeforeUserJoined ==
  [][\A s \in Sessions :
       LET row == UserRoom'[<<inflight[s].user_id, inflight[s].room_id>>] IN
       /\ JoinPersist(s) => row.exists /\ row.is_active /\ row.left_at = Null
       /\ (JoinEmit(s) /\ last'.accepted)
            => /\ inflight[s].persisted
               /\ UserRoom[<<inflight[s].user_id, inflight[s].room_id>>].exists]_vars

\* A join of the public room by a user with no row for it has broadcast
\* user_joined, and the row is there.
C26_Witness ==
  /\ last.op = "join_room_emit"
  /\ last.accepted
  /\ last.room_id = "general"
  /\ last.sid \in DOMAIN active_connections
  /\ UserRoom[<<active_connections[last.sid].user_id, "general">>].is_active

C31_PersistedLeaveSkipsInactiveRows ==
  [][last'.op \in {"leave_room", "disconnect"}
     => \A k \in DOMAIN UserRoom :
          ~(UserRoom[k].exists /\ UserRoom[k].is_active) => UserRoom'[k] = UserRoom[k]]_vars

\* C32: with the cleanup task scheduled fairly, a connection that is over
\* the TTL and has joined a room is eventually gone from active_connections,
\* and its user is then listed in room_users of that room only while another
\* connection of the user has joined the room.
C32_OverTTLEventuallyRemoved ==
  \A s \in Sessions : \A R \in RoomIds : \A u \in Users :
    (/\ s \in OverTTL
     /\ active_connections[s].user_id = u
     /\ R \in active_connections[s].rooms)
    ~> (/\ s \notin DOMAIN active_connections
        /\ u \in Get(room_users, R, {})
             => \E t \in DOMAIN active_connections :
                  active_connections[t].user_id = u /\ R \in active_connections[t].rooms)

\* C33: in every state a user is in room_users of a room exactly when the
\* room is in user_rooms of the user, and the user of every entry of
\* active_connections has an entry in user_rooms.
C33_IndexDirectionsAgree ==
  /\ \A R \in DOMAIN room_users : \A U \in room_users[R] :
       U \in DOMAIN user_rooms /\ R \in user_rooms[U]
  /\ \A U \in DOMAIN user_rooms : \A R \in user_rooms[U] :
       R \in DOMAIN room_users /\ U \in room_users[R]
  /\ \A s \in DOMAIN active_connections :
       active_connections[s].user_id \in DOMAIN user_rooms

\* A session has left a room it had joined while a user is listed in the
\* index of some room.
C33_Witness ==
  /\ last.op = "leave_room"
  /\ last.room_id \in last.pre_rooms
  /\ \E R \in DOMAIN room_users : room_users[R] # {}

\* C34: between handlers, every user in room_users of a room has an entry
\* in active_connections whose 'rooms' holds the room, and so every user that
\* a get_room_users lists is reported online.
C34_IndexListsOnlineUsersOnly ==
  /\ \A R \in DOMAIN room_users : \A U \in room_users[R] :
       \E s \in DOMAIN active_connections :
         active_connections[s].user_id = U /\ R \in active_connections[s].rooms
  /\ \A s \in Sessions : \A R \in RoomIds :
       LET w == handle_get_room_users(World, s, R) IN
         \A i \in 1..Len(w.ev) :
           w.ev[i].event = "room_users" => \A x \in w.ev[i].users : x.online

\* C35: after any interleaving of join_room handlers, two sessions of one
\* user joining the same room at once included, the user_rooms table holds
\* at most one row per pair of user and room.
C35_OneUserRoomRowPerPair ==
  \A k \in Users \X RoomIds :
    (IF UserRoom[k].exists THEN 1 ELSE 0) + UserRoomDuplicates[k] <= 1

\* C36: when a session that has joined a non-public room leaves it, or
\* disconnects, or is removed by the cleanup task, the UserRoom row of its
\* user for the room is inactive afterwards, and a join_room on that room by
\* any session of the user is then answered 'Access denied to private room'.
C36_LeavingPrivateRoomLocksOut ==
  [][\A s \in DOMAIN active_connections : \A R \in active_connections[s].rooms :
       LET u == active_connections[s].user_id IN
       (/\ ~ChatRoom[R].is_public
        /\ last'.op \in {"leave_room", "disconnect", "cleanup"}
        /\ (s \notin DOMAIN active_connections' \/ R \notin active_connections'[s].rooms))
       => /\ ~UserRoom'[<<u, R>>].is_active
          /\ \A t \in DOMAIN active_connections' :
               active_connections'[t].user_id = u
               => (Errors(handle_join_room(World, t, R)) = {"Access denied to private room"})']_vars

\* C37: the available_rooms that follows a connect and the recent_messages
\* that follows a join_room go to the session that connected or joined, also
\* when the user has an older session.
C37_RepliesGoToTheCaller ==
  /\ \A s \in Sessions : \A token \in TokensOf(s) :
       transport[s] = "new"
       => LET w == handle_connect(World, s, token, now) IN
            \A i \in 1..Len(w.ev) :
              w.ev[i].event = "available_rooms" => w.ev[i].to = {s}
  /\ \A s \in Sessions : \A R \in JoinInputs :
       transport[s] = "open"
       => LET w == handle_join_room(World, s, R) IN
            \A i \in 1..Len(w.ev) :
              w.ev[i].event = "recent_messages" => w.ev[i].to = {s}

\* C38: every entry of active_connections belongs to a session whose
\* connect was accepted: after a connect that handle_connect rejected, also
\* through its except clause after the entry was stored, the session has no
\* entry.
C38_OnlyAcceptedConnectsHaveEntries ==
  \A s \in Sessions :
    /\ s \in DOMAIN active_connections => transport[s] = "open"
    /\ (last.op \in {"connect", "connect_raises"} /\ last.sid = s /\ ~last.accepted)
         => s \notin DOMAIN active_connections

\* The handler of a connect with a valid token has raised after storing the
\* entry, while another session is connected.
C38_Witness ==
  /\ last.op = "connect_raises"
  /\ transport[last.sid] = "closed"
  /\ last.sid \notin DOMAIN active_connections
  /\ active_connections # << >>

\* C39: a send_message of a session keeps the ChatMessage rows there are,
\* and every row it adds and every new_message it broadcasts carries the
\* user_id of the session's entry in active_connections and the room_id of
\* the request, which is a room the session has joined.
C39_MessagesCarrySenderAndJoinedRoom ==
  \A s \in Sessions : \A R \in SendInputs : \A raw \in Contents :
    LET w == handle_send_message(World, s, R, raw) IN
      /\ Len(w.msgs) >= Len(ChatMessage)
      /\ SubSeq(w.msgs, 1, Len(ChatMessage)) = ChatMessage
      /\ \A i \in (Len(ChatMessage) + 1)..Len(w.msgs) :
           /\ s \in DOMAIN active_connections
           /\ w.msgs[i].user_id = active_connections[s].user_id
           /\ w.msgs[i].room_id = R
           /\ R \in active_connections[s].rooms
      /\ \A i \in 1..Len(w.ev) :
           w.ev[i].event = "new_message"
           => /\ s \in DOMAIN active_connections
              /\ w.ev[i].user_id = active_connections[s].user_id
              /\ w.ev[i].room_id = R
              /\ R \in active_connections[s].rooms

\* A session has sent a message to a room it has joined, while sessions of
\* two users are connected and the other one has joined another room only.
C39_Witness ==
  /\ last.op = "send_message"
  /\ Len(ChatMessage) = 1
  /\ last.sid \in DOMAIN active_connections
  /\ ChatMessage[1].user_id = active_connections[last.sid].user_id
  /\ ChatMessage[1].room_id \in active_connections[last.sid].rooms
  /\ \E t \in DOMAIN active_connections :
       /\ active_connections[t].user_id # active_connections[last.sid].user_id
       /\ ChatMessage[1].room_id \notin active_connections[t].rooms

====
